---- MODULE Spec2Model ----
(***************************************************************************)
(* axum-tariff (src/lib.rs): a tower middleware that delays a request by   *)
(* the duration configured for the country its client IP resolves to.      *)
(*                                                                         *)
(* Option<T> is modelled as a set with at most one element: None is {} and *)
(* Some(x) is {x}; and_then is a union over the element.  Strings (country *)
(* codes, header values) are sequences of one-character strings, so that   *)
(* to_uppercase, split, trim and parse are computed and not assumed.       *)
(***************************************************************************)
EXTENDS Integers, Sequences, FiniteSets, TLC

\* ------------------------------------------------------------------ bounds

MaxHeaderLen == 3     \* longest x-forwarded-for value, in characters
MaxWith == 2          \* most Config::with calls before the lookup
MaxDelay == 2         \* longest configured delay, in time units
NReq == 2             \* requests handled concurrently by one service

\* -------------------------------------------------------------- Option<T>

None == {}
Some(x) == {x}
unwrap(o) == CHOOSE x \in o : TRUE

\* ------------------------------------------------------ strings and codes

\* char::to_uppercase on the letters the codes below are written with.
UpperChar(c) ==
    CASE c = "g" -> "G"
      [] c = "b" -> "B"
      [] c = "f" -> "F"
      [] c = "r" -> "R"
      [] OTHER -> c

\* str::to_uppercase: every character uppercased.
to_uppercase(s) == [i \in 1..Len(s) |-> UpperChar(s[i])]

\* The country codes handed to Config::with: any string is accepted.
Codes ==
    { <<"G", "B">>, <<"g", "b">>, <<"G", "b">>, <<"B", "G">>, <<"b", "g">>,
      <<"F", "R">>, <<>> }

Delays == 0..MaxDelay

\* ------------------------------------------------------------ geo database

\* Client addresses.  An address literal is one symbol of a header value.
Ips == {"1", "2", "3", "4", "5", "6", "7"}

\* maxminddb::Reader::lookup::<geoip2::Country> returns
\* Result<Option<geoip2::Country>, MaxMindDbError>.
LookupErr == [ok |-> FALSE, val |-> None]
LookupOk(rec) == [ok |-> TRUE, val |-> rec]

\* geoip2::Country { country: Option<country::Country { iso_code: Option<&str> }> }
Country(iso) == [iso_code |-> iso]
Geo(country) == [country |-> country]

\* The database the reader was opened on: one address per outcome of a lookup.
reader_lookup(ip) ==
    CASE ip = "1" -> LookupOk(Some(Geo(Some(Country(Some(<<"G", "B">>))))))
      [] ip = "2" -> LookupOk(Some(Geo(Some(Country(Some(<<"b", "g">>))))))
      [] ip = "3" -> LookupOk(Some(Geo(Some(Country(Some(<<"F", "R">>))))))
      [] ip = "4" -> LookupErr
      [] ip = "5" -> LookupOk(None)
      [] ip = "6" -> LookupOk(Some(Geo(None)))
      [] OTHER    -> LookupOk(Some(Geo(Some(Country(None)))))

\* Result::ok
ok(r) == IF r.ok THEN Some(r.val) ELSE None

\* Option::flatten
flatten(o) == UNION o

\* ------------------------------------------------------------------ Config

\* HashMap::insert keeping the first value of a key (not what the code does).
insert_keep_first(tariffs, key, delay) ==
    [k \in DOMAIN tariffs \cup {key} |->
        IF k \in DOMAIN tariffs THEN tariffs[k] ELSE delay]

\* HashMap::insert: the key is mapped to the new value, replacing an old one.
insert(tariffs, key, delay) ==
    [k \in DOMAIN tariffs \cup {key} |-> IF k = key THEN delay ELSE tariffs[k]]

\* HashMap::get
get(tariffs, key) == IF key \in DOMAIN tariffs THEN Some(tariffs[key]) ELSE None

\* Config::new: an empty tariff map.
new == <<>>

\* Config::with
with(tariffs, code, delay) == insert(tariffs, to_uppercase(code), delay)

\* The ISO code of the country an address resolves to, if any:
\* lookup(ip).ok().flatten().and_then(|geo| geo.country)
\*           .and_then(|country| country.iso_code)
iso_code_of(ip) ==
    LET geo == flatten(ok(reader_lookup(ip)))
        country == UNION { g.country : g \in geo }
    IN  UNION { c.iso_code : c \in country }

\* get_delay_for_ip with a default delay where the chain finds nothing (not the code).
get_delay_for_ip_default(tariffs, ip) ==
    LET found == UNION { get(tariffs, to_uppercase(code)) : code \in iso_code_of(ip) }
    IN  IF found = None THEN Some(1) ELSE found

\* Config::get_delay_for_ip
get_delay_for_ip(tariffs, ip) ==
    UNION { get(tariffs, to_uppercase(code)) : code \in iso_code_of(ip) }

\* ------------------------------------------------------ extract_client_ip

\* Characters of a header value: two address literals, the comma, the space,
\* a letter, and a byte that is not visible ASCII.
NonText == "0xFF"
HeaderChars == {"1", "2", ",", " ", "x", NonText}

RECURSIVE SeqsUpTo(_, _)
SeqsUpTo(S, n) ==
    IF n = 0 THEN { <<>> }
    ELSE LET shorter == SeqsUpTo(S, n - 1)
         IN  shorter \cup { Append(s, c) : s \in { t \in shorter : Len(t) = n - 1 }, c \in S }

HeaderValues == SeqsUpTo(HeaderChars, MaxHeaderLen)

\* HeaderValue::to_str succeeds when every byte is visible ASCII.
to_str_ok(h) == \A i \in 1..Len(h) : h[i] # NonText

\* str::split(',').next(): the text before the first comma (the whole text
\* when there is none); it is never None.
first_token(s) ==
    LET commas == { i \in 1..Len(s) : s[i] = "," }
    IN  IF commas = {} THEN s
        ELSE SubSeq(s, 1, (CHOOSE i \in commas : \A j \in commas : i <= j) - 1)

\* str::trim
trim(s) ==
    LET kept == { i \in 1..Len(s) : s[i] # " " }
    IN  IF kept = {} THEN <<>>
        ELSE SubSeq(s, CHOOSE i \in kept : \A j \in kept : i <= j,
                       CHOOSE i \in kept : \A j \in kept : i >= j)

\* str::parse::<IpAddr>().ok(): exactly one address literal.
parse_ip(s) == IF Len(s) = 1 /\ s[1] \in Ips THEN Some(s[1]) ELSE None

\* A request: the first x-forwarded-for value and the ConnectInfo peer, if any.
Request(header, peer) == [header |-> header, peer |-> peer]

\* extract_client_ip falling back to the peer whenever the header gives no
\* address (not the code).
extract_client_ip_fallback(req) ==
    LET parsed == UNION { IF to_str_ok(h) THEN parse_ip(trim(first_token(h))) ELSE None
                          : h \in req.header }
    IN  IF parsed # None THEN parsed ELSE req.peer

\* extract_client_ip trusting the peer address before the header (not the code).
extract_client_ip_peer_first(req) ==
    IF req.peer # None THEN req.peer
    ELSE UNION { IF to_str_ok(h) THEN parse_ip(trim(first_token(h))) ELSE None
                 : h \in req.header }

\* extract_client_ip: the header, when it is there and is text, decides alone;
\* the ConnectInfo extension is read only otherwise.
extract_client_ip(req) ==
    IF req.header # None /\ to_str_ok(unwrap(req.header))
    THEN parse_ip(trim(first_token(unwrap(req.header))))
    ELSE req.peer

\* client_ip.and_then(|ip| config.get_delay_for_ip(ip))
decide(tariffs, client_ip) == UNION { get_delay_for_ip(tariffs, ip) : ip \in client_ip }

\* ------------------------------------------------------------------- state

VARIABLES
    tariffs,    \* Config::tariffs
    withLog,    \* the Config::with calls made so far, in order
    probe,      \* the last direct use of get_delay_for_ip / extract_client_ip
    rq,         \* per request: the future TariffService::call returned
    innerPoll,  \* what the downstream poll_ready last returned
    svcPoll,    \* what TariffService::poll_ready last returned
    polled      \* per downstream instance: poll_ready returned Ready(Ok(()))
                \* on it since its last call

vars == <<tariffs, withLog, probe, rq, innerPoll, svcPoll, polled>>

svcVars == <<rq, innerPoll, svcPoll, polled>>
cfgVars == <<tariffs, withLog, probe>>

NoProbe == [kind |-> "none"]

ReqIds == 1..NReq

\* Downstream instances: self.inner (0) and the clone made by call for request r.
SelfInner == 0
Instances == {SelfInner} \cup ReqIds

Idle ==
    [pc |-> "idle", req |-> None, client_ip |-> None, delay |-> None,
     elapsed |-> 0, slept |-> FALSE, innerCalls |-> 0, fwd |-> None,
     readyAtCall |-> None, innerRes |-> None, result |-> None,
     dropPhase |-> "none"]

NoService ==
    /\ rq = [r \in ReqIds |-> Idle]
    /\ innerPoll = "NotPolled"
    /\ svcPoll = "NotPolled"
    /\ polled = [i \in Instances |-> FALSE]

RECURSIVE Build(_)
\* The tariff map after the with() calls of a log.
Build(log) ==
    IF log = <<>> THEN new
    ELSE LET n == Len(log)
         IN  with(Build(SubSeq(log, 1, n - 1)), log[n].code, log[n].delay)

\* ---------------------------------------------- configuration and lookup

InitConfig ==
    /\ tariffs = new
    /\ withLog = <<>>
    /\ probe = NoProbe
    /\ NoService

With(code, delay) ==
    /\ Len(withLog) < MaxWith
    /\ tariffs' = with(tariffs, code, delay)
    /\ withLog' = Append(withLog, [code |-> code, delay |-> delay])
    /\ probe' = NoProbe
    /\ UNCHANGED svcVars

DelayForIp(ip) ==
    /\ probe' = [kind |-> "lookup", ip |-> ip, delay |-> get_delay_for_ip(tariffs, ip)]
    /\ UNCHANGED <<tariffs, withLog>>
    /\ UNCHANGED svcVars

NextConfig ==
    \/ \E code \in Codes, delay \in Delays : With(code, delay)
    \/ \E ip \in Ips : DelayForIp(ip)

SpecConfig == InitConfig /\ [][NextConfig]_vars

\* ----------------------------------------------------------- extraction

ExtractLogs ==
    { <<>> } \cup { <<[code |-> c, delay |-> d]>> : c \in Codes, d \in Delays }

InitExtract ==
    /\ withLog \in ExtractLogs
    /\ tariffs = Build(withLog)
    /\ probe = NoProbe
    /\ NoService

Extract(req) ==
    /\ probe = NoProbe
    /\ probe' = [kind |-> "extract", req |-> req,
                 ip |-> extract_client_ip(req),
                 delay |-> decide(tariffs, extract_client_ip(req))]
    /\ UNCHANGED <<tariffs, withLog>>
    /\ UNCHANGED svcVars

NextExtract ==
    \E header \in {None} \cup { Some(h) : h \in HeaderValues },
       peer \in {None, Some("1"), Some("3")} :
        Extract(Request(header, peer))

SpecExtract == InitExtract /\ [][NextExtract]_vars

\* ---------------------------------------------------------- TariffService

\* The configuration the layer is built from: two countries, two delays.
ServiceLog ==
    << [code |-> <<"g", "b">>, delay |-> MaxDelay],
       [code |-> <<"B", "G">>, delay |-> 1] >>

\* The requests the service receives: no address at all, an address of every
\* lookup outcome in x-forwarded-for, and one known only as the peer.
ServiceRequests ==
    { Request(None, None), Request(None, Some("2")) }
        \cup { Request(Some(<<ip>>), None) : ip \in Ips \ {"2"} }

\* What the downstream poll_ready and call return.
PollResults == {"Pending", "ReadyOk", "ReadyErr"}
InnerResults == {"Response", "Error"}

Init ==
    /\ withLog = ServiceLog
    /\ tariffs = Build(ServiceLog)
    /\ probe = NoProbe
    /\ NoService

\* poll_ready holding new requests back while one is asleep (not the code).
poll_ready_backpressure(out) ==
    IF \E r \in ReqIds : rq[r].pc = "sleeping" THEN "Pending" ELSE out

\* TariffService::poll_ready: self.inner.poll_ready(cx)
poll_ready(out) == out

\* The caller polls for readiness; a service that reported an error is
\* not polled or called again.
PollReady(out) ==
    /\ svcPoll # "ReadyErr"
    /\ innerPoll' = out
    /\ svcPoll' = poll_ready(out)
    /\ polled' = [polled EXCEPT ![SelfInner] = @ \/ out = "ReadyOk"]
    /\ UNCHANGED <<rq, cfgVars>>

\* TariffService::call, up to the future it returns: the request is moved
\* into the future with the client address extracted from it.
call(req) ==
    [Idle EXCEPT !.pc = "created", !.req = Some(req),
                 !.client_ip = extract_client_ip(req)]

\* Requests are numbered in the order call receives them; the caller calls
\* only after poll_ready returned Ready(Ok(())).
Call(r, req) ==
    /\ rq[r].pc = "idle"
    /\ r > 1 => rq[r - 1].pc # "idle"
    /\ svcPoll = "ReadyOk"
    /\ rq' = [rq EXCEPT ![r] = call(req)]
    \* let mut inner = self.inner.clone(): a new instance, never polled
    /\ polled' = [polled EXCEPT ![r] = FALSE]
    /\ innerPoll' = "NotPolled"
    /\ svcPoll' = "NotPolled"
    /\ UNCHANGED cfgVars

\* A forwarded request stripped of its header (not the code).
forwarded_request_no_header(req) == [req EXCEPT !.header = None]

\* The request handed to inner.call: req itself, moved.
forwarded_request(req) == req

\* inner.call(req) on the clone made for the request.
forward(rec, inst) ==
    [rec EXCEPT !.pc = "inner", !.innerCalls = @ + 1,
                !.fwd = Some(forwarded_request(unwrap(rec.req))),
                !.readyAtCall = Some(polled[inst])]

\* The first poll of the future: the delay is decided, and either the sleep
\* starts or the request is forwarded at once.
Poll(r) ==
    /\ rq[r].pc = "created"
    /\ LET d == decide(tariffs, rq[r].client_ip)
       IN  IF d # None
           THEN /\ rq' = [rq EXCEPT ![r] = [@ EXCEPT !.pc = "sleeping", !.delay = d,
                                                      !.elapsed = 0, !.slept = TRUE]]
                /\ UNCHANGED polled
           ELSE /\ rq' = [rq EXCEPT ![r] = forward(@, r)]
                /\ polled' = [polled EXCEPT ![r] = FALSE]
    /\ UNCHANGED <<innerPoll, svcPoll, cfgVars>>

Sleeping(r) == rq[r].pc = "sleeping" /\ rq[r].elapsed < unwrap(rq[r].delay)

\* Time passing for one sleeper only, as with a blocking sleep (not the code).
TickOneAtATime ==
    /\ \E r \in ReqIds : Sleeping(r)
    /\ LET first == CHOOSE r \in ReqIds : Sleeping(r) /\ \A s \in ReqIds : Sleeping(s) => r <= s
       IN  rq' = [rq EXCEPT ![first] = [@ EXCEPT !.elapsed = @ + 1]]
    /\ UNCHANGED <<innerPoll, svcPoll, polled, cfgVars>>

\* One unit of time passes: tokio's timer is shared, every pending sleep of
\* tokio::time::sleep(delay) gets one unit nearer to its deadline.
Tick ==
    /\ \E r \in ReqIds : Sleeping(r)
    /\ rq' = [r \in ReqIds |->
                IF Sleeping(r) THEN [rq[r] EXCEPT !.elapsed = @ + 1] ELSE rq[r]]
    /\ UNCHANGED <<innerPoll, svcPoll, polled, cfgVars>>

\* A sleep that returns at once (not the code).
timer_fired_early(rec) == TRUE

\* tokio::time::sleep(delay).await is over once the delay has elapsed.
timer_fired(rec) == rec.elapsed >= unwrap(rec.delay)

\* The sleep is over: the request is forwarded.
Wake(r) ==
    /\ rq[r].pc = "sleeping"
    /\ timer_fired(rq[r])
    /\ rq' = [rq EXCEPT ![r] = forward(@, r)]
    /\ polled' = [polled EXCEPT ![r] = FALSE]
    /\ UNCHANGED <<innerPoll, svcPoll, cfgVars>>

\* inner.call(req).await returns: its value is the value of the future.
InnerReturn(r, res) ==
    /\ rq[r].pc = "inner"
    /\ rq' = [rq EXCEPT ![r] = [@ EXCEPT !.pc = "done", !.innerRes = Some(res),
                                         !.result = Some(res)]]
    /\ UNCHANGED <<innerPoll, svcPoll, polled, cfgVars>>

\* A drop that lets the task run on, as for a spawned task (not the code).
drop_detached(rec) == [rec EXCEPT !.dropPhase = rec.pc]

\* The future is dropped before it completed: nothing of it runs any more.
drop(rec) == [rec EXCEPT !.pc = "dropped", !.dropPhase = rec.pc]

Drop(r) ==
    /\ rq[r].pc \in {"created", "sleeping", "inner"}
    /\ rq[r].dropPhase = "none"
    /\ rq' = [rq EXCEPT ![r] = drop(@)]
    /\ UNCHANGED <<innerPoll, svcPoll, polled, cfgVars>>

Next ==
    \/ \E out \in PollResults : PollReady(out)
    \/ \E r \in ReqIds, req \in ServiceRequests : Call(r, req)
    \/ \E r \in ReqIds : Poll(r)
    \/ Tick
    \/ \E r \in ReqIds : Wake(r)
    \/ \E r \in ReqIds, res \in InnerResults : InnerReturn(r, res)
    \/ \E r \in ReqIds : Drop(r)

Spec == Init /\ [][Next]_vars

\* ================================================================= claims

Max(S) == CHOOSE i \in S : \A j \in S : i >= j

\* The with() calls of a log whose uppercased code is key.
Matching(log, key) == { i \in 1..Len(log) : to_uppercase(log[i].code) = key }

\* C1: when the address looked up resolves to ISO code c, the delay returned
\* is the delay of the last with() call whose uppercased code equals the
\* uppercased c, whatever the casing of either.
C1_LastWithWins ==
    probe.kind = "lookup" =>
        \A c \in iso_code_of(probe.ip) :
            LET m == Matching(withLog, to_uppercase(c))
            IN  m # {} => probe.delay = Some(withLog[Max(m)].delay)

\* C1 happens: two with() calls of one country in different casings and with
\* different delays, and a lookup resolving to a third casing of it.
C1_Witness ==
    /\ probe.kind = "lookup"
    /\ Len(withLog) = 2
    /\ withLog[1].code # withLog[2].code
    /\ withLog[1].delay # withLog[2].delay
    /\ \E c \in iso_code_of(probe.ip) :
        /\ c \notin {withLog[1].code, withLog[2].code}
        /\ Matching(withLog, to_uppercase(c)) = {1, 2}
    /\ probe.delay = Some(withLog[2].delay)

\* The first comma-separated token of a header value, trimmed, as an address.
HeaderAddress(h) == parse_ip(trim(first_token(h)))

C6_PriorityOrder ==
    probe.kind = "extract" =>
        /\ \A h \in probe.req.header :
              HeaderAddress(h) # None => probe.ip = HeaderAddress(h)
        /\ probe.req.header = None => probe.ip = probe.req.peer
        /\ (probe.req.header = None /\ probe.req.peer = None)
              => (probe.ip = None /\ probe.delay = None)

\* C6 amended: the same, for a header value that is readable as text.
C6_PriorityOrderOfTextHeader ==
    probe.kind = "extract" =>
        /\ \A h \in probe.req.header :
              (to_str_ok(h) /\ HeaderAddress(h) # None) => probe.ip = HeaderAddress(h)
        /\ probe.req.header = None => probe.ip = probe.req.peer
        /\ (probe.req.header = None /\ probe.req.peer = None)
              => (probe.ip = None /\ probe.delay = None)

\* C6 happens: the first of two tokens, trimmed, wins over the peer, and the
\* delay of its country is decided.
C6_Witness ==
    /\ probe.kind = "extract"
    /\ probe.req.header = Some(<<" ", "1", ",">>)
    /\ probe.req.peer = Some("3")
    /\ probe.ip = Some("1")
    /\ probe.delay # None

\* The delay of a request is decided at the first poll of its future.
Decided(r) ==
    \/ rq[r].pc \in {"sleeping", "inner", "done"}
    \/ rq[r].pc = "dropped" /\ rq[r].dropPhase # "created"

\* C2: the downstream handler is called at most once per request, never
\* before the decided delay has fully elapsed, and with no suspension at all
\* when no delay is decided.
C2_OnceAndNotBeforeDelay ==
    \A r \in ReqIds :
        /\ rq[r].innerCalls <= 1
        /\ rq[r].innerCalls = 1 => \A d \in rq[r].delay : rq[r].elapsed >= d
        /\ (Decided(r) /\ rq[r].delay = None) => (~rq[r].slept /\ rq[r].elapsed = 0)

\* C2 happens: a request delayed by the longest delay was forwarded and
\* answered, while a request without delay was forwarded without sleeping.
C2_Witness ==
    \E r, s \in ReqIds :
        /\ rq[r].pc = "done" /\ rq[r].delay = Some(MaxDelay)
        /\ rq[r].elapsed = MaxDelay /\ rq[r].innerCalls = 1
        /\ rq[s].pc = "inner" /\ rq[s].delay = None /\ ~rq[s].slept

\* The failure modes of the decision, read off the request and the database.
NoClientIp(req) == extract_client_ip(req) = None
LookupFails(ip) == ~reader_lookup(ip).ok
NoRecord(ip) == reader_lookup(ip).ok /\ reader_lookup(ip).val = None
NoCountry(ip) == \E g \in reader_lookup(ip).val : g.country = None
NoIsoCode(ip) == \E g \in reader_lookup(ip).val : \E c \in g.country : c.iso_code = None
NoTariff(ip) ==
    \E g \in reader_lookup(ip).val : \E c \in g.country : \E code \in c.iso_code :
        to_uppercase(code) \notin DOMAIN tariffs

FailureMode(req) ==
    \/ NoClientIp(req)
    \/ \E ip \in extract_client_ip(req) :
        LookupFails(ip) \/ NoRecord(ip) \/ NoCountry(ip) \/ NoIsoCode(ip) \/ NoTariff(ip)

\* C3: in every failure mode of the decision no delay is decided: the
\* request is not suspended, is forwarded unchanged at the first poll, and
\* what the caller gets is what the downstream handler returned.
C3_FailureMeansNoDelay ==
    \A r \in ReqIds :
        (Decided(r) /\ \E req \in rq[r].req : FailureMode(req)) =>
            /\ rq[r].delay = None
            /\ ~rq[r].slept
            /\ rq[r].innerCalls = 1
            /\ rq[r].fwd = rq[r].req
            /\ rq[r].pc = "done" => (rq[r].result # None /\ rq[r].result = rq[r].innerRes)

\* C3 happens: a request whose lookup failed and a request of a country
\* without tariff were both forwarded and answered.
C3_Witness ==
    \E r, s \in ReqIds :
        /\ rq[r].pc = "done" /\ rq[r].client_ip = Some("4")
        /\ rq[s].pc = "done" /\ rq[s].client_ip = Some("3")

\* No step of a request waits for another request.
C4_NoRequestWaitsForAnother ==
    \A r \in ReqIds :
        /\ rq[r].pc = "created" => ENABLED Poll(r)
        /\ (rq[r].pc = "sleeping" /\ rq[r].elapsed >= unwrap(rq[r].delay))
              => ENABLED Wake(r)
        /\ rq[r].pc = "inner" => \A res \in InnerResults : ENABLED InnerReturn(r, res)

\* When time passes, it passes for every request still asleep.
C4_SleepsElapseTogether ==
    (\E r \in ReqIds : rq'[r].elapsed > rq[r].elapsed)
        => \A r \in ReqIds : Sleeping(r) => rq'[r].elapsed = rq[r].elapsed + 1

\* C4: a suspended request never keeps another one from being decided,
\* forwarded or completed, and the delays of concurrent requests elapse
\* together, not one after the other.
C4_SuspensionDoesNotBlock ==
    [](C4_NoRequestWaitsForAnother) /\ [][C4_SleepsElapseTogether]_vars

\* C4 happens: the second request is answered while the first one, which
\* came before it, is still asleep.
C4_Witness ==
    /\ rq[1].pc = "sleeping" /\ rq[1].elapsed < unwrap(rq[1].delay)
    /\ rq[2].pc = "done" /\ rq[2].slept

\* C7: the request the downstream handler receives is the original one, the
\* handler is called once, and the result of the middleware is the result
\* the handler returned, a response or an error.
C7_RequestAndResultUnchanged ==
    \A r \in ReqIds :
        /\ rq[r].fwd # None => rq[r].fwd = rq[r].req
        /\ rq[r].innerCalls <= 1
        /\ rq[r].result # None => rq[r].pc = "done"
        /\ rq[r].pc = "done" => (rq[r].result # None /\ rq[r].result = rq[r].innerRes)

\* C7 happens: a delayed request with a header is answered by an error.
C7_Witness ==
    \E r \in ReqIds :
        /\ rq[r].pc = "done" /\ rq[r].slept
        /\ \E req \in rq[r].req : req.header # None
        /\ rq[r].result = Some("Error")

\* A request dropped during its sleep is never handed to the handler.
C8_DroppedAsleepNeverForwarded ==
    \A r \in ReqIds :
        rq[r].dropPhase = "sleeping" =>
            (rq[r].innerCalls = 0 /\ rq[r].fwd = None /\ rq[r].result = None)

\* The drop of one request changes nothing of the others.
C8_DropLeavesOthers ==
    \A r \in ReqIds :
        (rq[r].dropPhase = "none" /\ rq'[r].dropPhase # "none")
            => \A s \in ReqIds \ {r} : rq'[s] = rq[s]

\* C8: a request cancelled while its delay is suspended is never forwarded,
\* then or later, and the other requests in flight are not affected.
C8_CancelledSleepIsAbandoned ==
    [](C8_DroppedAsleepNeverForwarded) /\ [][C8_DropLeavesOthers]_vars

\* C8 happens: the first request was dropped asleep after its delay had
\* elapsed, and the second, delayed too, was answered.
C8_Witness ==
    /\ rq[1].dropPhase = "sleeping" /\ rq[1].elapsed >= unwrap(rq[1].delay)
    /\ rq[2].pc = "done" /\ rq[2].slept

\* C9: poll_ready returns what the downstream poll_ready returned, however
\* many requests are suspended.
C9_ReadinessIsDownstreamReadiness == svcPoll = innerPoll

\* C9 happens: the service reports ready while every request is asleep.
C9_Witness ==
    /\ svcPoll = "ReadyOk"
    /\ \A r \in ReqIds : rq[r].pc = "sleeping"

\* C10: the downstream instance a request is forwarded to is one on which
\* poll_ready returned Ready since its last call.
C10_ForwardedInstanceWasPolledReady ==
    \A r \in ReqIds : rq[r].readyAtCall # Some(FALSE)

====
